---- MODULE Spec2Model ----
(***************************************************************************)
(* ratapp: the screen navigation runtime.                                  *)
(*                                                                         *)
(* The model follows crates/ratapp/src/app.rs (App::new / App::with_state  *)
(* and App::run) and crates/ratapp/src/navigation.rs (Navigator, Action).  *)
(* Every await of a screen callback inside App::run is one step of the     *)
(* loop task, so the states in which a callback is executing are states of *)
(* the model.  Screens are external code: what a callback does (mutate its *)
(* own instance through &mut self, send actions through its Navigator) is  *)
(* drawn from small sets.                                                  *)
(***************************************************************************)
EXTENDS Naturals, Sequences, FiniteSets

\* ---------------------------------------------------------------- bounds
\* The inputs one run receives: Navigator sends (from callbacks and from
\* spawned tasks) plus terminal events forwarded by the reader worker.
MaxInputs == 3
\* The inputs of a run explored under the fair specification (the search for
\* a run that never reaches its goal is the costly one).
MaxFairInputs == 2

\* ------------------------------------------------------------- constants
\* The screen identifiers (ScreenID); S::default() builds the first kind.
IDs == {"A", "B"}
DefaultID == "A"
NoID == "none"

\* navigation.rs, enum Action
Push(id) == [tag |-> "Push", id |-> id]
Replace(id) == [tag |-> "Replace", id |-> id]
Back == [tag |-> "Back", id |-> NoID]
Clear == [tag |-> "Clear", id |-> NoID]
Restart == [tag |-> "Restart", id |-> NoID]
Exit == [tag |-> "Exit", id |-> NoID]
Rerender == [tag |-> "Rerender", id |-> NoID]
Actions == {Push(id) : id \in IDs} \cup {Replace(id) : id \in IDs}
             \cup {Back, Clear, Restart, Exit, Rerender}
NoAct == [tag |-> "None", id |-> NoID]

\* navigation.rs, impl Navigator: the calls a holder of a Navigator can make,
\* and the action each method hands to channel.send
NavCalls == {[m |-> "push", id |-> id] : id \in IDs}
              \cup {[m |-> "replace", id |-> id] : id \in IDs}
              \cup {[m |-> x, id |-> NoID] : x \in {"back", "clear", "restart", "exit", "rerender"}}
NoNav == [m |-> "none", id |-> NoID]
BadActionOf_backClears(c) ==
  CASE c.m = "push" -> Push(c.id)
    [] c.m = "replace" -> Replace(c.id)
    [] c.m = "back" -> Clear
    [] c.m = "clear" -> Clear
    [] c.m = "restart" -> Restart
    [] c.m = "exit" -> Exit
    [] c.m = "rerender" -> Rerender
ActionOf(c) ==
  CASE c.m = "push" -> Push(c.id)
    [] c.m = "replace" -> Replace(c.id)
    [] c.m = "back" -> Back
    [] c.m = "clear" -> Clear
    [] c.m = "restart" -> Restart
    [] c.m = "exit" -> Exit
    [] c.m = "rerender" -> Rerender

\* crossterm events, as far as App::run tells them apart
EventKinds == {"Key", "Resize"}
\* An event as the arm of select! holds it.
EventMsg(k) == [tag |-> k, id |-> NoID]

\* Every instance is created by S::default() (once) or by S::new(id), which
\* only Push, Replace and Restart call: one instance per send, plus the first.
MaxInst == MaxInputs + 1
Inst == 1..MaxInst
NoInst == 0

\* The tasks that hold a clone of one State (the loop task, whose draw reads
\* it, and the tasks the screens spawn), and the get() calls they may issue.
NTasks == 2
MaxGets == 3
Tasks == 1..NTasks
NoTask == 0

VARIABLES
  screens,    \* the VecDeque of live screens, bottom first (instance ids)
  kind,       \* kind[i]: the variant of instance i, NoID before creation
  st,         \* st[i]: the state of instance i; the screens modelled count the
              \* calls made on them, so any call on i shows in st[i]
  nextInst,   \* the next instance id to hand out
  actions,    \* the Navigator action channel (events_tx / events_rx of run)
  events,     \* the terminal event channel (App.events)
  draw,       \* the draw flag of run
  pc,         \* the position of the loop task inside run
  screen,     \* `screen`, the back_mut() reference taken at the loop top
  old,        \* `old_screen` of Replace/Back/Clear/Restart/Exit
  held,       \* `current_screen` of Clear
  newScr,     \* the instance built by S::new / S::default, not yet pushed
  cur,        \* the event or action the select! arm received (a record with a tag)
  result,     \* what run returned: "none", "ok", "err"
  restored,   \* ratatui::restore() has been called
  rxAlive,    \* the receiver of the terminal event channel is alive
  readerPc,   \* the reader worker: "reading" or "stopped"
  ttyReady,   \* the terminal has something for the event::read() in progress
  taskPanic,  \* a Navigator send hit a dropped channel (expect panicked)
  nSent,      \* sends made so far
  nReads,     \* events forwarded by the reader so far
  calls,      \* history: the callbacks invoked, <<callback, instance>>
  hist,       \* history: the actions applied, with the state before and after
  sent,       \* history: the actions the channel accepted, with their sender
  delivered,  \* history: the events handed to on_event, with the call made
  reads,      \* history: the outcome of every event::read() of the reader
  cell,       \* State: the value inside the Mutex all clones share
  handle,     \* State: the task whose StateHandle holds the lock, NoTask if free
  poisoned,   \* State: a task panicked while its StateHandle was live
  tpc,        \* tpc[t]: where task t stands in its use of the State
  reg,        \* reg[t]: the value task t read through its handle
  gets,       \* get() calls issued so far
  updates     \* history: the updates written through a handle so far

\* What run and the reader work on, and what the users of a State work on.
runVars == <<screens, kind, st, nextInst, actions, events, draw, pc, screen, old,
             held, newScr, cur, result, restored, rxAlive, readerPc, ttyReady,
             taskPanic, nSent, nReads, calls, hist, sent, delivered, reads>>
stateVars == <<cell, handle, poisoned, tpc, reg, gets, updates>>
vars == <<runVars, stateVars>>

\* ------------------------------------------------------------- helpers
\* VecDeque::pop_back: the element removed and the elements left
TopOf(s) == s[Len(s)]
PopBack(s) == SubSeq(s, 1, Len(s) - 1)
\* VecDeque::back_mut: the element the loop borrows as `screen`
BadBackMut_front(s) == s[1]
BackMut(s) == s[Len(s)]

\* What the history keeps of a state of run.
Snap == [screens |-> screens, draw |-> draw, ncalls |-> Len(calls),
         st |-> st, nextInst |-> nextInst]
SnapAfter == [screens |-> screens', draw |-> draw', ncalls |-> Len(calls'),
              st |-> st', nextInst |-> nextInst']

\* The receiver of the action channel is a local of run (line 111): it lives
\* until run returns or unwinds.
BadActionRxAlive_always == TRUE
\* (a variant that closes the channel as soon as Exit is received)
BadActionRxAlive_untilExit == pc \notin {"exit_loop", "exit_exit", "done", "panicked"}
ActionRxAlive == pc \notin {"done", "panicked"}

\* ------------------------------------------------------------ callbacks
\* Navigator::push .. rerender while the receiver is alive: the action goes
\* to the tail of the channel.
BadNavSend_front(q, a) == <<a>> \o q
\* (a variant on a channel of capacity one whose send gives up when full)
BadNavSend_lossy(q, a) == IF q = <<>> THEN Append(q, a) ELSE q
NavSend(q, a) == Append(q, a)
\* The history entry of a send: the call c made, the action that went into
\* the channel, `ev`, the number of the delivered event whose on_event made
\* the call, 0 for any other caller, and `exiting`, whether the caller is an
\* on_exit that Exit runs.
Sent(c, ev, ex) ==
  Append(sent, [act |-> ActionOf(c), ev |-> ev, m |-> c.m, id |-> c.id, exiting |-> ex])

\* The completions of a screen's background operation so far (none in run as
\* it is: see RecvBackground).
BgCount == Cardinality({x \in 1..Len(calls) : calls[x][1] = "background"})

\* The inputs still allowed.
Budget == nSent + Len(reads) + BgCount < MaxInputs

\* One callback `cb` invoked on instance i (&mut self): the screen updates its
\* own state and may make one call a on the Navigator it is handed, which
\* sends on the channel and panics in expect() when the receiver is gone.
Callback(cb, i, a) ==
  /\ a # NoNav => Budget
  /\ calls' = Append(calls, <<cb, i>>)
  /\ st' = [st EXCEPT ![i] = @ + 1]
  /\ nSent' = IF a = NoNav THEN nSent ELSE nSent + 1
  /\ IF a # NoNav /\ ActionRxAlive
       THEN /\ actions' = NavSend(actions, ActionOf(a))
            /\ sent' = Sent(a, IF cb = "event" THEN Len(delivered) + 1 ELSE 0,
                            cb = "exit" /\ pc = "exit_exit")
       ELSE UNCHANGED <<actions, sent>>
  /\ taskPanic' = (taskPanic \/ (a # NoNav /\ ~ActionRxAlive))
  /\ delivered' = IF cb = "event"
                    THEN Append(delivered, [ev |-> cur.tag, inst |-> i, at |-> Len(calls) + 1])
                    ELSE delivered

\* S::new(id) / S::default(): a fresh instance of the kind, in its initial state.
Create(id) ==
  /\ newScr' = nextInst
  /\ nextInst' = nextInst + 1
  /\ kind' = [kind EXCEPT ![nextInst] = id]

\* The history entry of the action being applied is opened at dispatch and
\* closed when the match arm is left.
Open(a) == hist' = Append(hist, [act |-> a, pre |-> Snap, post |-> Snap, done |-> FALSE])
Close == hist' = [hist EXCEPT ![Len(hist)] = [@ EXCEPT !.post = SnapAfter, !.done = TRUE]]
OpenClose(a) == hist' = Append(hist, [act |-> a, pre |-> Snap, post |-> SnapAfter, done |-> TRUE])

\* ----------------------------------------------------------------- Init
\* run, lines 107-112: the terminal is initialised, the stack holds
\* S::default(), the action channel exists; on_enter is about to be awaited.
Init ==
  /\ screens = <<1>>
  /\ kind = [i \in Inst |-> IF i = 1 THEN DefaultID ELSE NoID]
  /\ st = [i \in Inst |-> 0]
  /\ nextInst = 2
  /\ actions = <<>>
  /\ events = <<>>
  /\ draw = FALSE
  /\ pc = "init_enter"
  /\ screen = NoInst
  /\ old = NoInst
  /\ held = NoInst
  /\ newScr = NoInst
  /\ cur = NoAct
  /\ result = "none"
  /\ restored = FALSE
  /\ rxAlive = TRUE
  /\ readerPc = "reading"
  /\ ttyReady = FALSE
  /\ taskPanic = FALSE
  /\ nSent = 0
  /\ nReads = 0
  /\ calls = <<>>
  /\ hist = <<>>
  /\ sent = <<>>
  /\ delivered = <<>>
  /\ reads = <<>>
  /\ cell = 0
  /\ handle = NoTask
  /\ poisoned = FALSE
  /\ tpc = [t \in Tasks |-> "idle"]
  /\ reg = [t \in Tasks |-> 0]
  /\ gets = 0
  /\ updates = 0

\* The frame of the steps of the loop task: the reader, the channels' ends
\* and the counters of the other tasks are not touched.
LoopFrame == UNCHANGED <<events, rxAlive, readerPc, ttyReady, nReads, reads>> /\ UNCHANGED stateVars

\* run, lines 114-120: on_enter of the initial screen, then draw = true.
InitEnter ==
  /\ pc = "init_enter"
  /\ \E a \in NavCalls \cup {NoNav} : Callback("enter", BackMut(screens), a)
  /\ draw' = TRUE
  /\ pc' = "loop"
  /\ UNCHANGED <<screens, kind, nextInst, screen, old, held, newScr, cur,
                 result, restored, hist>>
  /\ LoopFrame

\* terminal.draw(|frame| screen.draw(..)): it returns Ok, it returns Err before
\* or after it has called the closure, or the closure panics.
DrawOutcomes == {"ok", "fail_before", "fail_after", "panic"}

\* (a variant without the inspect_err: the error is returned as it is)
BadDrawFailed_noRestore ==
  /\ result' = "err"
  /\ pc' = "done"
  /\ UNCHANGED <<draw, restored>>

\* (a variant that clears the flag before it looks at the result)
BadDrawFailed_clearFlag ==
  /\ restored' = TRUE
  /\ result' = "err"
  /\ pc' = "done"
  /\ draw' = FALSE

\* run, lines 128-130: `.inspect_err(|_| ratatui::restore())?` on an Err: the
\* terminal is restored and run returns the error; line 132 is not reached.
DrawFailed ==
  /\ restored' = TRUE
  /\ result' = "err"
  /\ pc' = "done"
  /\ UNCHANGED draw

\* A panic inside the draw call: the panic hook that ratatui::init() (line
\* 107) installed restores the terminal, then run unwinds.
DrawPanicked ==
  /\ restored' = TRUE
  /\ pc' = "panicked"
  /\ UNCHANGED <<draw, result>>

\* (a variant that leaves the flag set after a successful draw)
BadLoopTop_keepFlag ==
  /\ pc = "loop"
  /\ IF screens = <<>>
       THEN /\ pc' = "panicked"
            /\ UNCHANGED <<screen, draw, result, restored, calls, st, actions, nSent, sent, delivered, taskPanic>>
       ELSE /\ screen' = BackMut(screens)
            /\ IF draw
                 THEN \E out \in DrawOutcomes :
                        /\ IF out = "fail_before"
                             THEN UNCHANGED <<calls, st, actions, nSent, sent, delivered, taskPanic>>
                             ELSE Callback("draw", BackMut(screens), NoNav)
                        /\ IF out = "ok"
                             THEN /\ pc' = "select"
                                  /\ UNCHANGED <<draw, result, restored>>
                             ELSE IF out = "panic"
                                    THEN DrawPanicked
                                    ELSE DrawFailed
                 ELSE /\ pc' = "select"
                      /\ UNCHANGED <<draw, result, restored, calls, st, actions, nSent, sent, delivered, taskPanic>>
  /\ UNCHANGED <<screens, kind, nextInst, old, held, newScr, cur, hist>>
  /\ LoopFrame

\* run, lines 123-133: take the top, draw it when the flag is set.
\* terminal.draw can fail before or after it has called the closure.
LoopTop ==
  /\ pc = "loop"
  /\ IF screens = <<>>
       THEN /\ pc' = "panicked"
            /\ UNCHANGED <<screen, draw, result, restored, calls, st, actions, nSent, sent, delivered, taskPanic>>
       ELSE /\ screen' = BackMut(screens)
            /\ IF draw
                 THEN \E out \in DrawOutcomes :
                        /\ IF out = "fail_before"
                             THEN UNCHANGED <<calls, st, actions, nSent, sent, delivered, taskPanic>>
                             ELSE Callback("draw", BackMut(screens), NoNav)
                        /\ IF out = "ok"
                             THEN /\ draw' = FALSE
                                  /\ pc' = "select"
                                  /\ UNCHANGED <<result, restored>>
                             ELSE IF out = "panic"
                                    THEN DrawPanicked
                                    ELSE DrawFailed
                 ELSE /\ pc' = "select"
                      /\ UNCHANGED <<draw, result, restored, calls, st, actions, nSent, sent, delivered, taskPanic>>
  /\ UNCHANGED <<screens, kind, nextInst, old, held, newScr, cur, hist>>
  /\ LoopFrame

\* (a variant that sets the draw flag on every event)
BadRecvEvent_alwaysDraw ==
  /\ pc = "select"
  /\ events # <<>>
  /\ cur' = EventMsg(Head(events))
  /\ events' = Tail(events)
  /\ draw' = TRUE
  /\ pc' = "on_event"
  /\ UNCHANGED <<screens, kind, st, nextInst, actions, screen, old, held, newScr,
                 result, restored, rxAlive, readerPc, ttyReady, taskPanic, nSent, nReads,
                 calls, hist, sent, delivered, reads, stateVars>>

\* (a variant that does not look for Event::Resize)
BadRecvEvent_noResize ==
  /\ pc = "select"
  /\ events # <<>>
  /\ cur' = EventMsg(Head(events))
  /\ events' = Tail(events)
  /\ pc' = "on_event"
  /\ UNCHANGED <<screens, kind, st, nextInst, actions, screen, old, held, newScr,
                 result, restored, rxAlive, readerPc, ttyReady, taskPanic, nSent, nReads,
                 calls, hist, sent, delivered, reads, draw, stateVars>>

\* (a variant that takes the newest event of the channel)
BadRecvEvent_last ==
  /\ pc = "select"
  /\ events # <<>>
  /\ cur' = EventMsg(events[Len(events)])
  /\ events' = SubSeq(events, 1, Len(events) - 1)
  /\ draw' = IF events[Len(events)] = "Resize" THEN TRUE ELSE draw
  /\ pc' = "on_event"
  /\ UNCHANGED <<screens, kind, st, nextInst, actions, screen, old, held, newScr,
                 result, restored, rxAlive, readerPc, ttyReady, taskPanic, nSent, nReads,
                 calls, hist, sent, delivered, reads, stateVars>>

\* (a variant whose losing arm has already taken its item when it is dropped)
BadRecvEvent_losesAction ==
  /\ pc = "select"
  /\ events # <<>>
  /\ cur' = EventMsg(Head(events))
  /\ events' = Tail(events)
  /\ actions' = IF actions # <<>> THEN Tail(actions) ELSE actions
  /\ draw' = IF Head(events) = "Resize" THEN TRUE ELSE draw
  /\ pc' = "on_event"
  /\ UNCHANGED <<screens, kind, st, nextInst, screen, old, held, newScr,
                 result, restored, rxAlive, readerPc, ttyReady, taskPanic, nSent, nReads,
                 calls, hist, sent, delivered, reads, stateVars>>

\* (a variant of select! that polls the action arm first: `biased;`)
BadRecvEvent_biased ==
  /\ pc = "select"
  /\ events # <<>>
  /\ actions = <<>>
  /\ cur' = EventMsg(Head(events))
  /\ events' = Tail(events)
  /\ draw' = IF Head(events) = "Resize" THEN TRUE ELSE draw
  /\ pc' = "on_event"
  /\ UNCHANGED <<screens, kind, st, nextInst, actions, screen, old, held, newScr,
                 result, restored, rxAlive, readerPc, ttyReady, taskPanic, nSent, nReads,
                 calls, hist, sent, delivered, reads, stateVars>>

\* run, lines 136-139: the event arm of select! wins.
RecvEvent ==
  /\ pc = "select"
  /\ events # <<>>
  /\ cur' = EventMsg(Head(events))
  /\ events' = Tail(events)
  /\ draw' = IF Head(events) = "Resize" THEN TRUE ELSE draw
  /\ pc' = "on_event"
  /\ UNCHANGED <<screens, kind, st, nextInst, actions, screen, old, held, newScr,
                 result, restored, rxAlive, readerPc, ttyReady, taskPanic, nSent, nReads,
                 calls, hist, sent, delivered, reads, stateVars>>

\* run, line 141: on_event on `screen`.
OnEvent ==
  /\ pc = "on_event"
  /\ \E a \in NavCalls \cup {NoNav} : Callback("event", screen, a)
  /\ pc' = "loop"
  /\ cur' = NoAct
  /\ UNCHANGED <<screens, kind, nextInst, draw, screen, old, held, newScr,
                 result, restored, hist>>
  /\ LoopFrame

\* (a variant that loses the action queued behind the one it takes)
BadRecv_skip(t) ==
  /\ pc = "select"
  /\ actions # <<>>
  /\ Head(actions).tag = t
  /\ actions' = IF Len(actions) > 1 THEN Tail(Tail(actions)) ELSE Tail(actions)

\* run, lines 135-143: the arms of select!, and the instances whose
\* background future an arm of select! holds while the loop awaits.
SelectArms == {"event", "action"}
BackgroundActive == IF "background" \in SelectArms /\ pc = "select" THEN {screen} ELSE {}

\* (a variant that takes the action wherever the loop task stands, also
\* inside a callback it is awaiting)
BadRecv_anywhere(t) ==
  /\ pc \notin {"done", "panicked"}
  /\ actions # <<>>
  /\ Head(actions).tag = t
  /\ actions' = Tail(actions)

\* run, line 143: the action arm of select! wins with an action of tag t.
Recv(t) ==
  /\ pc = "select"
  /\ actions # <<>>
  /\ Head(actions).tag = t
  /\ actions' = Tail(actions)

\* What no step of an action arm touches.
ArmFrame == UNCHANGED <<screen, result, restored>> /\ LoopFrame
\* A step of an arm that only moves data (no callback runs).
NoCallback == UNCHANGED <<calls, st, nSent, sent, delivered, taskPanic>>

\* ---- Action::Push, lines 145-154
RecvPush ==
  /\ Recv("Push")
  /\ Open(Head(actions))
  /\ cur' = Head(actions)
  /\ pc' = "push_pause"
  /\ NoCallback
  /\ UNCHANGED <<screens, kind, nextInst, draw, old, held, newScr>>
  /\ ArmFrame

\* (a variant that forgets on_pause)
BadPushPause_noPause ==
  /\ pc = "push_pause"
  /\ Create(cur.id)
  /\ pc' = "push_enter"
  /\ NoCallback
  /\ UNCHANGED <<screens, draw, old, held, cur, hist, actions>>
  /\ ArmFrame

\* (a variant that starts on_enter of the new screen while on_pause runs)
BadPushPause_overlap ==
  /\ pc = "push_pause"
  /\ Create(cur.id)
  /\ calls' = calls \o <<(<<"pause", screen>>), (<<"enter", nextInst>>)>>
  /\ st' = [st EXCEPT ![screen] = @ + 1, ![nextInst] = @ + 1]
  /\ pc' = "push_enter"
  /\ UNCHANGED <<screens, draw, old, held, cur, hist, actions, nSent, sent, delivered,
                 taskPanic>>
  /\ ArmFrame

\* on_pause on `screen`, then S::new(id)
PushPause ==
  /\ pc = "push_pause"
  /\ \E a \in NavCalls \cup {NoNav} : Callback("pause", screen, a)
  /\ Create(cur.id)
  /\ pc' = "push_enter"
  /\ UNCHANGED <<screens, draw, old, held, cur, hist>>
  /\ ArmFrame

\* (a variant that awaits the next item without going back to the loop top)
BadPushEnter_toSelect ==
  /\ pc = "push_enter"
  /\ \E a \in NavCalls \cup {NoNav} : Callback("enter", newScr, a)
  /\ screens' = Append(screens, newScr)
  /\ newScr' = NoInst
  /\ draw' = TRUE
  /\ pc' = "select"
  /\ cur' = NoAct
  /\ UNCHANGED <<kind, nextInst, old, held>>
  /\ ArmFrame
  /\ Close

\* on_enter on the new screen, push_back, draw = true
PushEnter ==
  /\ pc = "push_enter"
  /\ \E a \in NavCalls \cup {NoNav} : Callback("enter", newScr, a)
  /\ screens' = Append(screens, newScr)
  /\ newScr' = NoInst
  /\ draw' = TRUE
  /\ pc' = "loop"
  /\ cur' = NoAct
  /\ UNCHANGED <<kind, nextInst, old, held>>
  /\ ArmFrame
  /\ Close

\* ---- Action::Replace, lines 155-164
\* (a variant that leaves the old screen on the stack)
BadRecvReplace_noPop ==
  /\ Recv("Replace")
  /\ Open(Head(actions))
  /\ cur' = Head(actions)
  /\ old' = TopOf(screens)
  /\ pc' = "replace_exit"
  /\ NoCallback
  /\ UNCHANGED <<screens, kind, nextInst, draw, held, newScr>>
  /\ ArmFrame

RecvReplace ==
  /\ Recv("Replace")
  /\ Open(Head(actions))
  /\ cur' = Head(actions)
  /\ IF screens = <<>>
       THEN pc' = "panicked" /\ UNCHANGED <<screens, old>>
       ELSE /\ old' = TopOf(screens)
            /\ screens' = PopBack(screens)
            /\ pc' = "replace_exit"
  /\ NoCallback
  /\ UNCHANGED <<kind, nextInst, draw, held, newScr>>
  /\ ArmFrame

\* (a variant that forgets on_exit)
BadReplaceExit_noExit ==
  /\ pc = "replace_exit"
  /\ Create(cur.id)
  /\ pc' = "replace_enter"
  /\ NoCallback
  /\ UNCHANGED <<screens, draw, old, held, cur, hist, actions>>
  /\ ArmFrame

\* on_exit on the old screen, then S::new(id)
\* (a variant that calls on_exit on the top left after the pop)
BadReplaceExit_onNewTop ==
  /\ pc = "replace_exit"
  /\ \E a \in NavCalls \cup {NoNav} :
       Callback("exit", IF screens = <<>> THEN old ELSE TopOf(screens), a)
  /\ Create(cur.id)
  /\ pc' = "replace_enter"
  /\ UNCHANGED <<screens, draw, old, held, cur, hist>>
  /\ ArmFrame

\* on_exit on old_screen, then S::new(id)
ReplaceExit ==
  /\ pc = "replace_exit"
  /\ \E a \in NavCalls \cup {NoNav} : Callback("exit", old, a)
  /\ Create(cur.id)
  /\ pc' = "replace_enter"
  /\ UNCHANGED <<screens, draw, old, held, cur, hist>>
  /\ ArmFrame

\* on_enter on the new screen, push_back, draw = true; old_screen is dropped
ReplaceEnter ==
  /\ pc = "replace_enter"
  /\ \E a \in NavCalls \cup {NoNav} : Callback("enter", newScr, a)
  /\ screens' = Append(screens, newScr)
  /\ newScr' = NoInst
  /\ old' = NoInst
  /\ draw' = TRUE
  /\ pc' = "loop"
  /\ cur' = NoAct
  /\ UNCHANGED <<kind, nextInst, held>>
  /\ ArmFrame
  /\ Close

\* ---- Action::Back, lines 165-175
\* `if screens.len() > 1`
BadBackGuard_nonEmpty(s) == Len(s) > 0
BackGuard(s) == Len(s) > 1

\* (a variant that sets the draw flag whatever the size)
BadRecvBack_alwaysDraw ==
  /\ Recv("Back")
  /\ IF BackGuard(screens)
       THEN /\ cur' = Head(actions)
            /\ old' = TopOf(screens)
            /\ screens' = PopBack(screens)
            /\ pc' = "back_exit"
            /\ UNCHANGED draw
       ELSE /\ pc' = "loop"
            /\ draw' = TRUE
            /\ UNCHANGED <<screens, old, cur>>
  /\ NoCallback
  /\ UNCHANGED <<kind, nextInst, held, newScr>>
  /\ ArmFrame
  /\ IF BackGuard(screens) THEN Open(Head(actions)) ELSE OpenClose(Head(actions))

RecvBack ==
  /\ Recv("Back")
  /\ IF BackGuard(screens)
       THEN /\ cur' = Head(actions)
            /\ old' = TopOf(screens)
            /\ screens' = PopBack(screens)
            /\ pc' = "back_exit"
            /\ UNCHANGED draw
       ELSE /\ pc' = "loop"
            /\ UNCHANGED <<screens, old, draw, cur>>
  /\ NoCallback
  /\ UNCHANGED <<kind, nextInst, held, newScr>>
  /\ ArmFrame
  /\ IF BackGuard(screens) THEN Open(Head(actions)) ELSE OpenClose(Head(actions))

\* (a variant that forgets on_exit)
BadBackExit_noExit ==
  /\ pc = "back_exit"
  /\ pc' = "back_resume"
  /\ NoCallback
  /\ UNCHANGED <<screens, kind, nextInst, draw, old, held, newScr, cur, hist, actions>>
  /\ ArmFrame

BackExit ==
  /\ pc = "back_exit"
  /\ \E a \in NavCalls \cup {NoNav} : Callback("exit", old, a)
  /\ pc' = "back_resume"
  /\ UNCHANGED <<screens, kind, nextInst, draw, old, held, newScr, cur, hist>>
  /\ ArmFrame

\* (a variant that leaves the draw flag alone)
BadBackResume_noDraw ==
  /\ pc = "back_resume"
  /\ \E a \in NavCalls \cup {NoNav} : Callback("resume", BackMut(screens), a)
  /\ old' = NoInst
  /\ pc' = "loop"
  /\ cur' = NoAct
  /\ UNCHANGED <<screens, kind, nextInst, held, newScr, draw>>
  /\ ArmFrame
  /\ Close

\* (a variant that forgets on_resume)
BadBackResume_noResume ==
  /\ pc = "back_resume"
  /\ old' = NoInst
  /\ draw' = TRUE
  /\ pc' = "loop"
  /\ cur' = NoAct
  /\ NoCallback
  /\ UNCHANGED <<screens, kind, nextInst, held, newScr, actions>>
  /\ ArmFrame
  /\ Close

\* on_resume on screens.back_mut().unwrap(), draw = true; old_screen is dropped
BackResume ==
  /\ pc = "back_resume"
  /\ IF screens = <<>>
       THEN /\ pc' = "panicked"
            /\ UNCHANGED <<calls, st, actions, nSent, sent, delivered, taskPanic, draw, old, cur>>
       ELSE /\ \E a \in NavCalls \cup {NoNav} :
                  Callback("resume", BackMut(screens), a)
            /\ old' = NoInst
            /\ draw' = TRUE
            /\ pc' = "loop"
            /\ cur' = NoAct
  /\ UNCHANGED <<screens, kind, nextInst, held, newScr>>
  /\ ArmFrame
  /\ IF screens = <<>> THEN UNCHANGED hist ELSE Close

\* ---- Action::Clear, lines 176-184
\* `let current_screen = screens.pop_back().unwrap()`
RecvClear ==
  /\ Recv("Clear")
  /\ Open(Head(actions))
  /\ cur' = Head(actions)
  /\ IF screens = <<>>
       THEN pc' = "panicked" /\ UNCHANGED <<screens, held>>
       ELSE /\ held' = TopOf(screens)
            /\ screens' = PopBack(screens)
            /\ pc' = "clear_loop"
  /\ NoCallback
  /\ UNCHANGED <<kind, nextInst, draw, old, newScr>>
  /\ ArmFrame

\* (a variant that pops from the front)
BadClearPop_front ==
  /\ pc = "clear_loop"
  /\ IF screens # <<>>
       THEN /\ old' = Head(screens)
            /\ screens' = Tail(screens)
            /\ pc' = "clear_exit"
            /\ UNCHANGED <<held, cur>>
       ELSE /\ screens' = Append(screens, held)
            /\ held' = NoInst
            /\ pc' = "loop"
            /\ cur' = NoAct
            /\ UNCHANGED old
  /\ NoCallback
  /\ UNCHANGED <<kind, nextInst, draw, newScr, actions>>
  /\ ArmFrame
  /\ IF screens # <<>> THEN UNCHANGED hist ELSE Close

\* (a variant that does not push current_screen back)
BadClearPop_noPushBack ==
  /\ pc = "clear_loop"
  /\ IF screens # <<>>
       THEN /\ old' = TopOf(screens)
            /\ screens' = PopBack(screens)
            /\ pc' = "clear_exit"
            /\ UNCHANGED <<held, cur>>
       ELSE /\ held' = NoInst
            /\ pc' = "loop"
            /\ cur' = NoAct
            /\ UNCHANGED <<old, screens>>
  /\ NoCallback
  /\ UNCHANGED <<kind, nextInst, draw, newScr, actions>>
  /\ ArmFrame
  /\ IF screens # <<>> THEN UNCHANGED hist ELSE Close

\* `while let Some(mut old_screen) = screens.pop_back()`, and after the loop
\* `screens.push_back(current_screen)`
ClearPop ==
  /\ pc = "clear_loop"
  /\ IF screens # <<>>
       THEN /\ old' = TopOf(screens)
            /\ screens' = PopBack(screens)
            /\ pc' = "clear_exit"
            /\ UNCHANGED <<held, cur>>
       ELSE /\ screens' = Append(screens, held)
            /\ held' = NoInst
            /\ pc' = "loop"
            /\ cur' = NoAct
            /\ UNCHANGED old
  /\ NoCallback
  /\ UNCHANGED <<kind, nextInst, draw, newScr, actions>>
  /\ ArmFrame
  /\ IF screens # <<>> THEN UNCHANGED hist ELSE Close

ClearExit ==
  /\ pc = "clear_exit"
  /\ \E a \in NavCalls \cup {NoNav} : Callback("exit", old, a)
  /\ old' = NoInst
  /\ pc' = "clear_loop"
  /\ UNCHANGED <<screens, kind, nextInst, draw, held, newScr, cur, hist>>
  /\ ArmFrame

\* ---- Action::Restart, lines 185-195
RecvRestart ==
  /\ Recv("Restart")
  /\ Open(Head(actions))
  /\ cur' = Head(actions)
  /\ pc' = "restart_loop"
  /\ NoCallback
  /\ UNCHANGED <<screens, kind, nextInst, draw, old, held, newScr>>
  /\ ArmFrame

\* (a variant that pops from the front)
BadRestartPop_front ==
  /\ pc = "restart_loop"
  /\ IF screens # <<>>
       THEN /\ old' = Head(screens)
            /\ screens' = Tail(screens)
            /\ pc' = "restart_exit"
            /\ UNCHANGED <<kind, nextInst, newScr>>
       ELSE /\ Create(DefaultID)
            /\ pc' = "restart_enter"
            /\ UNCHANGED <<screens, old>>
  /\ NoCallback
  /\ UNCHANGED <<draw, held, cur, hist, actions>>
  /\ ArmFrame

\* `while let Some(mut old_screen) = screens.pop_back()`, and after the loop
\* `S::default()`
RestartPop ==
  /\ pc = "restart_loop"
  /\ IF screens # <<>>
       THEN /\ old' = TopOf(screens)
            /\ screens' = PopBack(screens)
            /\ pc' = "restart_exit"
            /\ UNCHANGED <<kind, nextInst, newScr>>
       ELSE /\ Create(DefaultID)
            /\ pc' = "restart_enter"
            /\ UNCHANGED <<screens, old>>
  /\ NoCallback
  /\ UNCHANGED <<draw, held, cur, hist, actions>>
  /\ ArmFrame

RestartExit ==
  /\ pc = "restart_exit"
  /\ \E a \in NavCalls \cup {NoNav} : Callback("exit", old, a)
  /\ old' = NoInst
  /\ pc' = "restart_loop"
  /\ UNCHANGED <<screens, kind, nextInst, draw, held, newScr, cur, hist>>
  /\ ArmFrame

RestartEnter ==
  /\ pc = "restart_enter"
  /\ \E a \in NavCalls \cup {NoNav} : Callback("enter", newScr, a)
  /\ screens' = Append(screens, newScr)
  /\ newScr' = NoInst
  /\ draw' = TRUE
  /\ pc' = "loop"
  /\ cur' = NoAct
  /\ UNCHANGED <<kind, nextInst, old, held>>
  /\ ArmFrame
  /\ Close

\* ---- Action::Exit, lines 196-202, and the return of run, lines 211-213
RecvExit ==
  /\ Recv("Exit")
  /\ Open(Head(actions))
  /\ cur' = Head(actions)
  /\ pc' = "exit_loop"
  /\ NoCallback
  /\ UNCHANGED <<screens, kind, nextInst, draw, old, held, newScr>>
  /\ ArmFrame

\* (a variant without the `break`: the loop goes on after the last on_exit)
BadExitPop_noBreak ==
  /\ pc = "exit_loop"
  /\ IF screens # <<>>
       THEN /\ old' = TopOf(screens)
            /\ screens' = PopBack(screens)
            /\ pc' = "exit_exit"
            /\ UNCHANGED cur
       ELSE /\ pc' = "loop"
            /\ cur' = NoAct
            /\ UNCHANGED <<screens, old>>
  /\ NoCallback
  /\ UNCHANGED <<kind, nextInst, draw, held, newScr, actions, screen, restored, result>>
  /\ LoopFrame
  /\ IF screens # <<>> THEN UNCHANGED hist ELSE Close

\* `while let Some(mut old_screen) = screens.pop_back()`, and after the loop
\* `break`, ratatui::restore(), Ok(())
ExitPop ==
  /\ pc = "exit_loop"
  /\ IF screens # <<>>
       THEN /\ old' = TopOf(screens)
            /\ screens' = PopBack(screens)
            /\ pc' = "exit_exit"
            /\ UNCHANGED <<cur, restored, result>>
       ELSE /\ restored' = TRUE
            /\ result' = "ok"
            /\ pc' = "done"
            /\ cur' = NoAct
            /\ UNCHANGED <<screens, old>>
  /\ NoCallback
  /\ UNCHANGED <<kind, nextInst, draw, held, newScr, actions, screen>>
  /\ LoopFrame
  /\ IF screens # <<>> THEN UNCHANGED hist ELSE Close

\* (a variant that drops the screen without on_exit)
BadExitExit_noExit ==
  /\ pc = "exit_exit"
  /\ old' = NoInst
  /\ pc' = "exit_loop"
  /\ NoCallback
  /\ UNCHANGED <<screens, kind, nextInst, draw, held, newScr, cur, hist, actions>>
  /\ ArmFrame

ExitExit ==
  /\ pc = "exit_exit"
  /\ \E a \in NavCalls \cup {NoNav} : Callback("exit", old, a)
  /\ old' = NoInst
  /\ pc' = "exit_loop"
  /\ UNCHANGED <<screens, kind, nextInst, draw, held, newScr, cur, hist>>
  /\ ArmFrame

\* ---- Action::Rerender, lines 203-205
\* (a variant that leaves the draw flag alone)
BadRecvRerender_noDraw ==
  /\ Recv("Rerender")
  /\ pc' = "loop"
  /\ NoCallback
  /\ UNCHANGED <<screens, kind, nextInst, old, held, newScr, cur, draw>>
  /\ ArmFrame
  /\ OpenClose(Head(actions))

RecvRerender ==
  /\ Recv("Rerender")
  /\ draw' = TRUE
  /\ pc' = "loop"
  /\ NoCallback
  /\ UNCHANGED <<screens, kind, nextInst, old, held, newScr, cur>>
  /\ ArmFrame
  /\ OpenClose(Head(actions))

\* ------------------------------------------------------- the other tasks
\* A spawned task calls a Navigator method on its clone: channel.send(a),
\* and expect() panics in the caller when the receiver is gone.
TaskSend ==
  /\ Budget
  /\ nSent' = nSent + 1
  /\ \E a \in NavCalls :
       IF ActionRxAlive
         THEN /\ actions' = NavSend(actions, ActionOf(a))
              /\ sent' = Sent(a, 0, FALSE)
              /\ UNCHANGED taskPanic
         ELSE /\ taskPanic' = TRUE
              /\ UNCHANGED <<actions, sent>>
  /\ UNCHANGED <<screens, kind, st, nextInst, events, draw, pc, screen, old, held,
                 newScr, cur, result, restored, rxAlive, readerPc, ttyReady, nReads, calls, hist,
                 delivered, reads, stateVars>>

\* event::read() (lines 57 and 85) blocks the worker until the terminal has
\* an event or an error for it: the terminal, not the program, decides when
\* that is.
TerminalInput ==
  /\ readerPc = "reading"
  /\ ~ttyReady
  /\ rxAlive => Budget
  /\ ttyReady' = TRUE
  /\ UNCHANGED <<screens, kind, st, nextInst, actions, events, draw, pc, screen, old,
                 held, newScr, cur, result, restored, rxAlive, readerPc, taskPanic,
                 nSent, nReads, calls, hist, sent, delivered, reads, stateVars>>

\* (a variant that gives up at the first failed read)
BadReaderStep_stopOnErr ==
  /\ readerPc = "reading"
  /\ ttyReady
  /\ ttyReady' = FALSE
  /\ \E r \in EventKinds \cup {"Err"} :
       /\ (r = "Err" \/ rxAlive) => Budget
       /\ reads' = Append(reads, r)
       /\ IF r = "Err"
            THEN /\ readerPc' = "stopped"
                 /\ UNCHANGED <<events, nReads>>
            ELSE IF rxAlive
                   THEN /\ events' = Append(events, r)
                        /\ nReads' = nReads + 1
                        /\ UNCHANGED readerPc
                   ELSE /\ readerPc' = "stopped"
                        /\ UNCHANGED <<events, nReads>>
  /\ UNCHANGED <<screens, kind, st, nextInst, actions, draw, pc, screen, old, held,
                 newScr, cur, result, restored, rxAlive, taskPanic, nSent, calls, hist,
                 sent, delivered, stateVars>>

\* The reader worker, App::new lines 55-63: one turn of its loop, the return
\* of event::read() and then events_tx.send(event).  A failed read is
\* skipped; a failed send ends the worker.
ReaderStep ==
  /\ readerPc = "reading"
  /\ ttyReady
  /\ ttyReady' = FALSE
  /\ \E r \in EventKinds \cup {"Err"} :
       /\ (r = "Err" \/ rxAlive) => Budget
       /\ reads' = Append(reads, r)
       /\ IF r = "Err"
            THEN UNCHANGED <<events, readerPc, nReads>>
            ELSE IF rxAlive
                   THEN /\ events' = Append(events, r)
                        /\ nReads' = nReads + 1
                        /\ UNCHANGED readerPc
                   ELSE /\ readerPc' = "stopped"
                        /\ UNCHANGED <<events, nReads>>
  /\ UNCHANGED <<screens, kind, st, nextInst, actions, draw, pc, screen, old, held,
                 newScr, cur, result, restored, rxAlive, taskPanic, nSent, calls, hist,
                 sent, delivered, stateVars>>

\* The App (struct App, lines 42-45) owns the receiver of the event channel;
\* the caller may drop the App once run has returned.
DropApp ==
  /\ pc \in {"done", "panicked"}
  /\ rxAlive
  /\ rxAlive' = FALSE
  /\ UNCHANGED <<screens, kind, st, nextInst, actions, events, draw, pc, screen, old,
                 held, newScr, cur, result, restored, readerPc, ttyReady, taskPanic, nSent,
                 nReads, calls, hist, sent, delivered, reads, stateVars>>

Next ==
  \/ InitEnter
  \/ LoopTop
  \/ RecvEvent
  \/ OnEvent
  \/ RecvPush
  \/ PushPause
  \/ PushEnter
  \/ RecvReplace
  \/ ReplaceExit
  \/ ReplaceEnter
  \/ RecvBack
  \/ BackExit
  \/ BackResume
  \/ RecvClear
  \/ ClearPop
  \/ ClearExit
  \/ RecvRestart
  \/ RestartPop
  \/ RestartExit
  \/ RestartEnter
  \/ RecvExit
  \/ ExitPop
  \/ ExitExit
  \/ RecvRerender
  \/ TaskSend
  \/ TerminalInput
  \/ ReaderStep
  \/ DropApp

Spec == Init /\ [][Next]_vars

\* ------------------------------------------- the loop with a background arm
\* src/src/screen.rs declares the background operation of a screen, rerender,
\* with a default body that never returns; the loop that awaits it is not
\* among the sources.  The arm below is the one the specification describes:
\* the completion of the top screen's operation sets the draw flag and
\* nothing else, and the loop goes back to its top.
\* The kinds of screen that override the operation with one that returns.
OverridesRerender == {"B"}
\* src/src/screen.rs, Screen::rerender: `future::pending::<()>().await`
BadRerenderDefaultReturns_ready == TRUE
RerenderDefaultReturns == FALSE
RerenderReturns(id) == IF id \in OverridesRerender THEN TRUE ELSE RerenderDefaultReturns

RecvBackground ==
  /\ pc = "select"
  /\ Budget
  /\ RerenderReturns(kind[screen])
  /\ Callback("background", screen, NoNav)
  /\ draw' = TRUE
  /\ pc' = "loop"
  /\ UNCHANGED <<screens, kind, nextInst, old, held, newScr, cur, hist>>
  /\ ArmFrame

BgNext ==
  \/ Next
  \/ RecvBackground

BgSpec == Init /\ [][BgNext]_vars

\* run, lines 143-207: the action arm of select! wins, whatever the action.
RecvAction ==
  \/ RecvPush
  \/ RecvReplace
  \/ RecvBack
  \/ RecvClear
  \/ RecvRestart
  \/ RecvExit
  \/ RecvRerender

\* ------------------------------------------------------- fair scheduling
\* The steps of the loop task (run, lines 103-214).
LoopNext ==
  \/ InitEnter
  \/ LoopTop
  \/ RecvEvent
  \/ OnEvent
  \/ RecvPush
  \/ PushPause
  \/ PushEnter
  \/ RecvReplace
  \/ ReplaceExit
  \/ ReplaceEnter
  \/ RecvBack
  \/ BackExit
  \/ BackResume
  \/ RecvClear
  \/ ClearPop
  \/ ClearExit
  \/ RecvRestart
  \/ RestartPop
  \/ RestartExit
  \/ RestartEnter
  \/ RecvExit
  \/ ExitPop
  \/ ExitExit
  \/ RecvRerender

\* The tokio runtime keeps polling the loop task while it can advance, and
\* the blocking thread of the reader runs once event::read() has something
\* to return.  Nothing makes the terminal produce input, a task call a
\* Navigator, or the caller drop the App.  select! starts polling at an arm
\* chosen at random each time, so an arm that is ready again and again is
\* not passed over for ever.  (Every step of the loop task moves pc and
\* every turn of the reader extends reads.)
\* The fair runs are explored up to MaxFairInputs inputs.
FairNext == Next /\ (nSent' + Len(reads') <= MaxFairInputs)
FairSpec ==
  /\ Init
  /\ [][FairNext]_vars
  /\ WF_pc(LoopNext)
  /\ WF_reads(ReaderStep)
  /\ SF_pc(RecvEvent)
  /\ SF_pc(RecvAction)

\* ------------------------------------------------ State (state.rs, 8-35)
\* State<T> is Arc<Mutex<T>>: clone() hands out another Arc to the same
\* Mutex, get() locks it and wraps the MutexGuard in a StateHandle, and the
\* lock is released when the StateHandle is dropped.  Each task works on its
\* own clone; the update a task makes through a handle is `*tick.get() += 1`
\* (examples/ticks.rs), modelled as a read and a write of the guarded value.
HoldingPcs == {"holding", "modify", "written"}
StateFrame == UNCHANGED runVars

\* (a variant whose get() does not wait for the lock)
BadMutexFree_always == TRUE
\* Mutex::lock returns only once no guard of the mutex is live.
MutexFree == handle = NoTask

\* get(), line 16, is called: the task is now inside Mutex::lock.
StateGet(t) ==
  /\ tpc[t] = "idle"
  /\ gets < MaxGets
  /\ gets' = gets + 1
  /\ tpc' = [tpc EXCEPT ![t] = "locking"]
  /\ UNCHANGED <<cell, handle, poisoned, reg, updates>>
  /\ StateFrame

\* get(), line 17: lock() returns once the mutex is free; on a poisoned
\* mutex it returns an error, expect() panics and the guard inside the error
\* is dropped, so no handle comes to exist.
StateLock(t) ==
  /\ tpc[t] = "locking"
  /\ MutexFree
  /\ IF poisoned
       THEN /\ tpc' = [tpc EXCEPT ![t] = "panicked"]
            /\ UNCHANGED handle
       ELSE /\ tpc' = [tpc EXCEPT ![t] = "holding"]
            /\ handle' = t
  /\ UNCHANGED <<cell, poisoned, reg, gets, updates>>
  /\ StateFrame

\* Deref, lines 23-29: the value is read through the handle.
StateRead(t) ==
  /\ tpc[t] = "holding"
  /\ reg' = [reg EXCEPT ![t] = cell]
  /\ tpc' = [tpc EXCEPT ![t] = "modify"]
  /\ UNCHANGED <<cell, handle, poisoned, gets, updates>>
  /\ StateFrame

\* DerefMut, lines 31-35: the value read, plus one, is written through the
\* handle.
StateWrite(t) ==
  /\ tpc[t] = "modify"
  /\ cell' = reg[t] + 1
  /\ updates' = updates + 1
  /\ tpc' = [tpc EXCEPT ![t] = "written"]
  /\ UNCHANGED <<handle, poisoned, reg, gets>>
  /\ StateFrame

\* The StateHandle (line 21) goes out of scope: the MutexGuard is dropped.
StateRelease(t) ==
  /\ tpc[t] \in HoldingPcs
  /\ handle' = NoTask
  /\ tpc' = [tpc EXCEPT ![t] = "idle"]
  /\ UNCHANGED <<cell, poisoned, reg, gets, updates>>
  /\ StateFrame

\* The task calls get() again while its own handle is live: Mutex::lock does
\* not return, the task stays blocked with its handle live.
StateRelock(t) ==
  /\ tpc[t] \in HoldingPcs
  /\ gets < MaxGets
  /\ gets' = gets + 1
  /\ tpc' = [tpc EXCEPT ![t] = "stuck"]
  /\ UNCHANGED <<cell, handle, poisoned, reg, updates>>
  /\ StateFrame

\* The task panics while its handle is live: unwinding drops the guard and
\* the mutex is poisoned.
StatePanic(t) ==
  /\ tpc[t] \in HoldingPcs
  /\ handle' = NoTask
  /\ poisoned' = TRUE
  /\ tpc' = [tpc EXCEPT ![t] = "panicked"]
  /\ UNCHANGED <<cell, reg, gets, updates>>
  /\ StateFrame

StateNext ==
  \E t \in Tasks :
    \/ StateGet(t)
    \/ StateLock(t)
    \/ StateRead(t)
    \/ StateWrite(t)
    \/ StateRelease(t)
    \/ StateRelock(t)
    \/ StatePanic(t)

StateSpec == Init /\ [][StateNext]_vars

\* ======================================================================
\* Properties
\* ======================================================================
\* The callbacks invoked on instance i, in order.
CallsOn(i) == SelectSeq(calls, LAMBDA e : e[2] = i)
\* The names of the callbacks invoked on i.
NamesOn(i) == [k \in 1..Len(CallsOn(i)) |-> CallsOn(i)[k][1]]
\* The instances on the stack.
OnStack == {screens[k] : k \in 1..Len(screens)}
\* The instances the loop task still owns: on the stack or in a local.
Live == (OnStack \cup {old, held, newScr}) \ {NoInst}
Created(i) == i < nextInst
\* The positions of run from the end of initialisation to the moment Exit
\* starts popping, grouped by what the loop is doing.
IdlePcs == {"loop", "select", "on_event"}
PushPcs == {"push_pause", "push_enter"}
BackPcs == {"back_exit", "back_resume"}
ReplacePcs == {"replace_exit", "replace_enter"}
ClearPcs == {"clear_loop", "clear_exit"}
RestartPcs == {"restart_loop", "restart_exit", "restart_enter"}
RunningPcs == IdlePcs \cup PushPcs \cup BackPcs \cup ReplacePcs \cup ClearPcs \cup RestartPcs

\* ---- C1 ---------------------------------------------------------------
\* C1 as stated: in every state of run from the end of initialisation to the
\* moment Exit starts popping, the callbacks of Replace, Clear and Restart
\* included, the stack holds at least one instance.
C1_AlwaysNonEmpty == pc \in RunningPcs => Len(screens) >= 1

\* C1 amended: the stack holds at least one instance whenever the loop is at
\* its top, drawing, awaiting in select!, running on_event, or applying Push
\* or Back; only while Replace, Clear or Restart is being applied may the
\* vector be empty (their callbacks run on instances already popped).
C1_NonEmptyOutsideReplaceClearRestart ==
  pc \in (IdlePcs \cup PushPcs \cup BackPcs) => Len(screens) >= 1

\* C1 witness: on_exit of Back is executing and the stack is down to one.
C1_Witness == pc = "back_exit" /\ Len(screens) = 1

\* ---- C2 ---------------------------------------------------------------
\* C2: on every instance on_enter is the first callback and happens once,
\* on_exit happens at most once and nothing follows it; an instance on the
\* stack has been entered and not exited; and unless the run ended by a draw
\* error, every instance the loop has let go of received its on_exit (so
\* after Exit every instance created has exactly one on_enter and on_exit).
C2_Lifecycle ==
  \A i \in Inst :
    LET L == NamesOn(i) IN
      /\ L # <<>> => L[1] = "enter"
      /\ \A k \in 2..Len(L) : L[k] # "enter"
      /\ \A k \in 1..(Len(L) - 1) : L[k] # "exit"
      /\ (i \in OnStack /\ pc # "init_enter") => (L # <<>> /\ L[Len(L)] # "exit")
      /\ (Created(i) /\ i \notin Live /\ result # "err") => (L # <<>> /\ L[Len(L)] = "exit")

\* C2 witness: the run has returned Ok, at least two instances were created
\* and one of them was drawn and received an event before its on_exit.
C2_Witness ==
  /\ result = "ok"
  /\ nextInst >= 3
  /\ \E i \in Inst : \E j, k \in 1..Len(NamesOn(i)) :
       NamesOn(i)[j] = "draw" /\ NamesOn(i)[k] = "event"

\* ---- C3 ---------------------------------------------------------------
\* The on_pause / on_resume calls on i, in order.
PauseResumeOn(i) == SelectSeq(NamesOn(i), LAMBDA c : c \in {"pause", "resume"})
Alternate(i) ==
  \A k \in 1..Len(PauseResumeOn(i)) :
    PauseResumeOn(i)[k] = (IF k % 2 = 1 THEN "pause" ELSE "resume")

\* C3 as stated: pauses and resumes alternate starting with on_pause, and an
\* on_pause that is not the last callback on its instance is followed by an
\* on_resume.
C3_PauseThenResume ==
  \A i \in Inst :
    /\ Alternate(i)
    /\ \A k \in 1..(Len(NamesOn(i)) - 1) :
         NamesOn(i)[k] = "pause" => NamesOn(i)[k + 1] = "resume"

\* C3 amended: pauses and resumes alternate starting with on_pause, and an
\* on_pause that is not the last callback on its instance is followed next
\* by exactly one on_resume or, when Clear, Restart or Exit removes the
\* paused instance, by its on_exit with no on_resume.
C3_PauseThenResumeOrExit ==
  \A i \in Inst :
    /\ Alternate(i)
    /\ \A k \in 1..(Len(NamesOn(i)) - 1) :
         NamesOn(i)[k] = "pause" => NamesOn(i)[k + 1] \in {"resume", "exit"}

\* C3 witness: an instance was paused, resumed and has got its on_exit.
C3_Witness ==
  \E i \in Inst : \E k \in 1..(Len(NamesOn(i)) - 1) :
    /\ NamesOn(i)[k] = "pause"
    /\ NamesOn(i)[k + 1] = "resume"
    /\ NamesOn(i)[Len(NamesOn(i))] = "exit"

\* ---- C4 ---------------------------------------------------------------
\* C4: a step that calls draw or on_event calls it on the instance that is
\* the last element of the stack, and no step changes the state of an
\* instance that lies below the last element.
C4_OnlyTop ==
  [][ /\ (Len(calls') = Len(calls) + 1 /\ calls'[Len(calls')][1] \in {"draw", "event"})
        => (/\ screens # <<>>
            /\ screens' = screens
            /\ calls'[Len(calls')][2] = screens[Len(screens)])
      /\ \A k \in 1..(Len(screens) - 1) : st'[screens[k]] = st[screens[k]]
    ]_vars

\* C4 witness: on_event has just returned on the top of a stack of two or
\* more, and the instance beneath has received nothing since its on_pause.
C4_Witness ==
  /\ pc = "loop"
  /\ Len(screens) >= 2
  /\ calls[Len(calls)] = <<"event", screens[Len(screens)]>>
  /\ NamesOn(screens[Len(screens) - 1])[Len(NamesOn(screens[Len(screens) - 1]))] = "pause"

\* ---- the actions applied ------------------------------------------------
Range(q) == {q[k] : k \in 1..Len(q)}
\* hist[k] is an action of tag t whose match arm has been left.
Applied(k, t) == hist[k].act.tag = t /\ hist[k].done
\* The top of the stack when hist[k] was received.
PreTop(k) == hist[k].pre.screens[Len(hist[k].pre.screens)]
\* The stack without its last element.
ButLast(q) == [k \in 1..(Len(q) - 1) |-> q[k]]

\* ---- C5 ---------------------------------------------------------------
\* C5: an applied Push(id) made exactly two calls, on_pause on the top it
\* found and then on_enter on an instance that did not exist before, of kind
\* id; on_enter ran before the push; afterwards the stack is the old stack
\* plus that instance and the draw flag is set.
C5_Push ==
  /\ \A k \in 1..Len(hist) : Applied(k, "Push") =>
       LET h == hist[k]
           n == h.pre.nextInst
           c == h.pre.ncalls
       IN /\ h.post.ncalls = c + 2
          /\ calls[c + 1] = <<"pause", PreTop(k)>>
          /\ calls[c + 2] = <<"enter", n>>
          /\ n \notin Range(h.pre.screens)
          /\ h.pre.st[n] = 0
          /\ kind[n] = h.act.id
          /\ h.post.screens = Append(h.pre.screens, n)
          /\ h.post.draw = TRUE
  /\ pc = "push_enter" =>
       /\ screens = hist[Len(hist)].pre.screens
       /\ newScr \notin Range(screens)
       /\ calls[Len(calls)] = <<"pause", screens[Len(screens)]>>

\* C5 witness: a Push of the kind of the current top has been applied.
C5_Witness ==
  \E k \in 1..Len(hist) : Applied(k, "Push") /\ hist[k].act.id = kind[PreTop(k)]

\* ---- C6 ---------------------------------------------------------------
\* C6: an applied Replace(id) made exactly two calls, on_exit on the top it
\* found and then on_enter on a new instance of kind id; afterwards the stack
\* has the size it had, the old top is gone, the new instance is the top and
\* the draw flag is set.
C6_Replace ==
  \A k \in 1..Len(hist) : Applied(k, "Replace") =>
    LET h == hist[k]
        n == h.pre.nextInst
        c == h.pre.ncalls
    IN /\ h.post.ncalls = c + 2
       /\ calls[c + 1] = <<"exit", PreTop(k)>>
       /\ calls[c + 2] = <<"enter", n>>
       /\ kind[n] = h.act.id
       /\ Len(h.post.screens) = Len(h.pre.screens)
       /\ h.post.screens = Append(ButLast(h.pre.screens), n)
       /\ PreTop(k) \notin Range(h.post.screens)
       /\ h.post.draw = TRUE

\* C6 witness: a Replace has been applied on a stack of one screen.
C6_Witness ==
  \E k \in 1..Len(hist) : Applied(k, "Replace") /\ Len(hist[k].pre.screens) = 1

\* ---- C7 ---------------------------------------------------------------
\* C7: an applied Back that found more than one screen made exactly two
\* calls, on_exit on the top and then on_resume on the instance beneath it;
\* afterwards the stack is the old stack without its top and the draw flag
\* is set.
C7_Back ==
  \A k \in 1..Len(hist) : (Applied(k, "Back") /\ Len(hist[k].pre.screens) > 1) =>
    LET h == hist[k]
        c == h.pre.ncalls
        beneath == h.pre.screens[Len(h.pre.screens) - 1]
    IN /\ h.post.ncalls = c + 2
       /\ calls[c + 1] = <<"exit", PreTop(k)>>
       /\ calls[c + 2] = <<"resume", beneath>>
       /\ h.post.screens = ButLast(h.pre.screens)
       /\ Len(h.post.screens) = Len(h.pre.screens) - 1
       /\ h.post.screens[Len(h.post.screens)] = beneath
       /\ h.post.draw = TRUE

\* C7 witness: a Back has been applied on a stack of three screens.
C7_Witness ==
  \E k \in 1..Len(hist) : Applied(k, "Back") /\ Len(hist[k].pre.screens) = 3

\* ---- C8 ---------------------------------------------------------------
\* C8: a Back received on a stack of one screen is over at once and leaves
\* the stack, every instance's state, the draw flag and the number of calls
\* made as they were.
C8_BackOnOne ==
  \A k \in 1..Len(hist) : (hist[k].act.tag = "Back" /\ Len(hist[k].pre.screens) = 1) =>
    /\ hist[k].done
    /\ hist[k].post = hist[k].pre

\* C8 witness: a Back has been received on a stack of one screen, after the
\* screen had handled an event.
C8_Witness ==
  \E k \in 1..Len(hist) :
    /\ hist[k].act.tag = "Back"
    /\ Len(hist[k].pre.screens) = 1
    /\ "event" \in Range(NamesOn(PreTop(k)))

\* ---- C9 ---------------------------------------------------------------
\* The calls made from the receipt of hist[j] to the end of hist[k].
CallsBetween(j, k) == SubSeq(calls, hist[j].pre.ncalls + 1, hist[k].post.ncalls)

\* C9: when a Back is the action applied next after a Push, the stack is
\* again the sequence of instances it was before the Push; the state of the
\* previous top is the one it had, advanced only by its own on_pause and
\* on_resume, and the instances beneath it are untouched; the pushed
\* instance is off the stack and its calls are one on_enter, first, and one
\* on_exit, last.
C9_PushBack ==
  \A k \in 1..(Len(hist) - 1) : (Applied(k, "Push") /\ Applied(k + 1, "Back")) =>
    LET p == hist[k]
        b == hist[k + 1]
        n == p.pre.nextInst
        top == PreTop(k)
        L == NamesOn(n)
    IN /\ b.post.screens = p.pre.screens
       /\ SelectSeq(CallsBetween(k, k + 1), LAMBDA e : e[2] = top)
            = <<(<<"pause", top>>), (<<"resume", top>>)>>
       /\ b.post.st[top] = p.pre.st[top] + 2
       /\ \A j \in Range(p.pre.screens) \ {top} : b.post.st[j] = p.pre.st[j]
       /\ n \notin Range(b.post.screens)
       /\ n \notin Live
       /\ L[1] = "enter"
       /\ L[Len(L)] = "exit"
       /\ Cardinality({x \in 1..Len(L) : L[x] \in {"enter", "exit"}}) = 2

\* C9 witness: Push then Back have been applied, and in between the pushed
\* instance handled an event.
C9_Witness ==
  \E k \in 1..(Len(hist) - 1) :
    /\ Applied(k, "Push")
    /\ Applied(k + 1, "Back")
    /\ "event" \in Range(NamesOn(hist[k].pre.nextInst))

\* ---- C10 --------------------------------------------------------------
\* C10: an applied Clear made one call per instance below the top, on_exit,
\* going down from the second from the top to the bottom; afterwards the
\* stack is the old top alone, in the state it had, and the draw flag is the
\* one Clear found.
C10_Clear ==
  \A k \in 1..Len(hist) : Applied(k, "Clear") =>
    LET h == hist[k]
        S == h.pre.screens
        c == h.pre.ncalls
    IN /\ h.post.ncalls = c + Len(S) - 1
       /\ \A j \in 1..(Len(S) - 1) : calls[c + j] = <<"exit", S[Len(S) - j]>>
       /\ h.post.screens = <<PreTop(k)>>
       /\ h.post.st[PreTop(k)] = h.pre.st[PreTop(k)]
       /\ h.post.draw = h.pre.draw

\* C10 witness: a Clear has been applied on a stack of three screens.
C10_Witness ==
  \E k \in 1..Len(hist) : Applied(k, "Clear") /\ Len(hist[k].pre.screens) = 3

\* ---- C11 --------------------------------------------------------------
\* C11: an applied Restart made one on_exit call per instance of the stack it
\* found, going down from the top to the bottom, and then one on_enter call on
\* an instance that did not exist before, of the default kind; on_enter ran
\* while the stack was empty, before the push; afterwards the stack is that
\* instance alone and the draw flag is set.
C11_Restart ==
  /\ \A k \in 1..Len(hist) : Applied(k, "Restart") =>
       LET h == hist[k]
           S == h.pre.screens
           c == h.pre.ncalls
           n == h.pre.nextInst
       IN /\ h.post.ncalls = c + Len(S) + 1
          /\ \A j \in 1..Len(S) : calls[c + j] = <<"exit", S[Len(S) + 1 - j]>>
          /\ calls[c + Len(S) + 1] = <<"enter", n>>
          /\ n \notin Range(S)
          /\ h.pre.st[n] = 0
          /\ kind[n] = DefaultID
          /\ h.post.screens = <<n>>
          /\ h.post.draw = TRUE
  /\ pc = "restart_enter" =>
       /\ screens = <<>>
       /\ NamesOn(newScr) = <<>>
       /\ kind[newScr] = DefaultID

\* C11 witness: a Restart has been applied on a stack of two screens whose
\* top was not of the default kind.
C11_Witness ==
  \E k \in 1..Len(hist) :
    /\ Applied(k, "Restart")
    /\ Len(hist[k].pre.screens) = 2
    /\ kind[PreTop(k)] # DefaultID

\* ---- C12 --------------------------------------------------------------
\* The number of on_exit calls made on instance i.
ExitsOn(i) == Cardinality({x \in 1..Len(calls) : calls[x] = <<"exit", i>>})

\* C12: an applied Exit made one on_exit call per instance of the stack it
\* found, going down from the top to the bottom, each of these instances has
\* exactly one on_exit in the whole run, and no call follows; the stack is
\* empty, the terminal is restored and run has returned Ok.  And run returns
\* Ok only so: the last action applied is an Exit with all its calls made.
C12_Exit ==
  /\ \A k \in 1..Len(hist) : Applied(k, "Exit") =>
       LET h == hist[k]
           S == h.pre.screens
           c == h.pre.ncalls
       IN /\ h.post.ncalls = c + Len(S)
          /\ \A j \in 1..Len(S) : calls[c + j] = <<"exit", S[Len(S) + 1 - j]>>
          /\ \A i \in Range(S) : ExitsOn(i) = 1
          /\ h.post.screens = <<>>
          /\ k = Len(hist)
          /\ Len(calls) = h.post.ncalls
          /\ pc = "done"
          /\ restored
          /\ result = "ok"
  /\ result = "ok" => (hist # <<>> /\ Applied(Len(hist), "Exit"))

\* C12 witness: an Exit has been applied on a stack of three screens.
C12_Witness ==
  \E k \in 1..Len(hist) : Applied(k, "Exit") /\ Len(hist[k].pre.screens) = 3

\* ---- C13 --------------------------------------------------------------
\* C13: an applied Rerender makes no call, leaves the stack alone and sets
\* the draw flag; the first call made after it is a draw of the top, made
\* before the next action is received and before the loop awaits again, and a
\* second call is made only once the loop has received the next action or
\* has handed the next event to on_event.
C13_RerenderDrawsOnce ==
  \A k \in 1..Len(hist) : Applied(k, "Rerender") =>
    LET h == hist[k]
        c == h.post.ncalls
    IN /\ h.post.ncalls = h.pre.ncalls
       /\ h.post.screens = h.pre.screens
       /\ h.post.draw = TRUE
       /\ Len(calls) > c => calls[c + 1] = <<"draw", PreTop(k)>>
       /\ k < Len(hist) => hist[k + 1].pre.ncalls >= c + 1
       /\ Len(calls) > c + 1 =>
            \/ k < Len(hist) /\ hist[k + 1].pre.ncalls = c + 1
            \/ calls[c + 2][1] = "event"
       /\ (k = Len(hist) /\ pc \in {"select", "on_event"}) => Len(calls) > c

\* C13 witness: a Rerender sent by on_event has been applied, its draw is
\* made and the loop has since received another action.
C13_Witness ==
  \E k \in 1..(Len(hist) - 1) :
    /\ Applied(k, "Rerender")
    /\ sent[k].ev > 0
    /\ calls[hist[k].post.ncalls + 1][1] = "draw"

\* ---- C14 --------------------------------------------------------------
\* C14: no step takes the loop to the await of select! with the draw flag
\* set; a step of the loop top that finds the flag set either draws the top,
\* clears the flag and goes to the await, or ends run, by an error or by a
\* panic of the draw, with the terminal restored.
C14_CleanWhenAwaiting ==
  [][ /\ pc' = "select" => ~draw'
      /\ (pc = "loop" /\ draw /\ pc' # pc) =>
           \/ /\ pc' = "select"
              /\ calls' = Append(calls, <<"draw", screens[Len(screens)]>>)
           \/ /\ pc' = "done"
              /\ result' = "err"
              /\ restored'
           \/ /\ pc' = "panicked"
              /\ restored'
    ]_vars

\* C14 witness: the loop awaits after it has handled a Resize event.
C14_Witness ==
  /\ pc = "select"
  /\ ~draw
  /\ delivered # <<>>
  /\ delivered[Len(delivered)].ev = "Resize"

\* ---- C15 --------------------------------------------------------------
\* The step closes the history entry of an action.
Closes == hist' # hist /\ hist'[Len(hist')].done

C16_DrawAfterEveryEvent ==
  (pc = "select" /\ calls # <<>>) => calls[Len(calls)][1] # "event"

\* ---- C17 --------------------------------------------------------------
\* C17: while on_event runs with a Resize event the draw flag is set; every
\* event taken from the channel is handed to on_event; and the call that
\* follows the on_event of a Resize is a draw of the same instance, made
\* before the loop awaits again, whatever the handler sent.
C17_Resize ==
  /\ (pc = "on_event" /\ cur.tag = "Resize") => draw
  /\ Len(delivered) + Len(events) + (IF pc = "on_event" THEN 1 ELSE 0) = nReads
  /\ \A e \in 1..Len(delivered) : delivered[e].ev = "Resize" =>
       LET c == delivered[e].at
           i == delivered[e].inst
       IN /\ calls[c] = <<"event", i>>
          /\ Len(calls) > c => calls[c + 1] = <<"draw", i>>
          /\ pc = "select" => Len(calls) > c

\* C17 witness: a Resize event was handled by a handler that sent nothing,
\* and the draw that follows has been made.
C17_Witness ==
  \E e \in 1..Len(delivered) :
    /\ delivered[e].ev = "Resize"
    /\ Len(calls) > delivered[e].at
    /\ \A j \in 1..Len(sent) : sent[j].ev # e

\* ---- C18 --------------------------------------------------------------
\* The actions sent, in the order the channel accepted them, and the actions
\* the loop has received, in the order it received them.
SentActs == [j \in 1..Len(sent) |-> sent[j].act]
HistActs == [k \in 1..Len(hist) |-> hist[k].act]

\* C18: the actions the loop has received followed by the actions still in
\* the channel are the actions sent, in the order they were sent: none is
\* skipped or taken out of turn (so the actions of each producer are applied
\* in the order it sent them); and when an Exit is received, every action
\* sent before it has been applied to its end.
C18_Fifo ==
  /\ SentActs = HistActs \o actions
  /\ \A k \in 1..Len(hist) : hist[k].act.tag = "Exit" =>
       \A i \in 1..(k - 1) : hist[i].done /\ hist[i].act = sent[i].act

\* C18 witness: run has returned after three different actions, none sent by
\* on_event, were applied, the Exit last.
C18_Witness ==
  /\ result = "ok"
  /\ Len(hist) = 3
  /\ hist[1].act = Push("B")
  /\ hist[2].act = Rerender
  /\ hist[3].act = Exit
  /\ \A j \in 1..Len(sent) : sent[j].ev = 0

C20_OnePerIteration ==
  [][ /\ Len(hist') <= Len(hist) + 1
      /\ (pc' = "select" /\ pc # "select") => pc = "loop"
      /\ Len(hist') = Len(hist) + 1 =>
           /\ pc = "select"
           /\ ~draw
           /\ hist # <<>> =>
                LET h == hist[Len(hist)] IN
                  /\ h.done
                  /\ h.post.draw =>
                       /\ Len(calls) > h.post.ncalls
                       /\ calls[h.post.ncalls + 1]
                            = <<"draw", h.post.screens[Len(h.post.screens)]>>
    ]_vars

\* C20 witness: a Push and the action after it have been applied with one
\* call made in between, the draw of the pushed screen.
C20_Witness ==
  /\ Len(hist) >= 2
  /\ Applied(1, "Push")
  /\ hist[2].done
  /\ hist[2].pre.ncalls = hist[1].post.ncalls + 1
  /\ calls[hist[2].pre.ncalls] = <<"draw", hist[1].pre.nextInst>>

\* ---- C21 --------------------------------------------------------------
\* The events the reader read successfully, in read order.
GoodReads == SelectSeq(reads, LAMBDA r : r # "Err")
\* The events handed to on_event, in the order of the calls.
DeliveredEvs == [e \in 1..Len(delivered) |-> delivered[e].ev]
\* The event the loop has received and not yet handed over.
InHand == IF pc = "on_event" THEN <<cur.tag>> ELSE <<>>

\* C21: while the receiver of the event channel lives, the events handed to
\* on_event, then the one the loop holds, then those still in the channel are
\* the events the reader read, in read order; every on_event call is the call
\* of exactly one of them, and the calls come in the order of the events.
C21_EventOrder ==
  /\ rxAlive => DeliveredEvs \o InHand \o events = GoodReads
  /\ \A e \in 1..Len(delivered) :
       /\ calls[delivered[e].at] = <<"event", delivered[e].inst>>
       /\ e > 1 => delivered[e - 1].at < delivered[e].at
  /\ Cardinality({x \in 1..Len(calls) : calls[x][1] = "event"}) = Len(delivered)

\* C21 witness: three events of alternating kinds have been handed to
\* on_event.
C21_Witness ==
  /\ Len(delivered) = 3
  /\ DeliveredEvs = <<"Key", "Resize", "Key">>

\* ---- C30 --------------------------------------------------------------
\* C30: a turn of the reader makes one read; after a failed read the channel
\* is as it was and the reader is still reading; after a successful read,
\* while the receiver lives, the event read is the new tail of the channel
\* and the reader is still reading.
C30_ReaderSwallowsErrors ==
  [][ reads' # reads =>
        /\ readerPc = "reading"
        /\ Len(reads') = Len(reads) + 1
        /\ SubSeq(reads', 1, Len(reads)) = reads
        /\ IF reads'[Len(reads')] = "Err"
             THEN /\ events' = events
                  /\ nReads' = nReads
                  /\ readerPc' = "reading"
             ELSE rxAlive =>
                    /\ events' = Append(events, reads'[Len(reads')])
                    /\ nReads' = nReads + 1
                    /\ readerPc' = "reading"
    ]_vars

\* C30 witness: a read failed, the next read succeeded and its event has been
\* handed to on_event.
C30_Witness ==
  /\ Len(reads) >= 2
  /\ reads[1] = "Err"
  /\ reads[2] # "Err"
  /\ delivered # <<>>
  /\ delivered[1].ev = reads[2]

\* ---- C22 --------------------------------------------------------------
\* The callback the loop task is executing at its position, if any: the loop
\* awaits each callback where it stands, and draw runs inside the loop top.
NoCall == <<"none", NoInst>>
Executing ==
  CASE pc = "init_enter" -> <<"enter", screens[Len(screens)]>>
    [] pc = "loop" /\ draw /\ screens # <<>> -> <<"draw", screens[Len(screens)]>>
    [] pc = "on_event" -> <<"event", screen>>
    [] pc = "push_pause" -> <<"pause", screen>>
    [] pc \in {"push_enter", "replace_enter", "restart_enter"} -> <<"enter", newScr>>
    [] pc \in {"replace_exit", "back_exit", "clear_exit", "restart_exit", "exit_exit"}
         -> <<"exit", old>>
    [] pc = "back_resume" -> <<"resume", screens[Len(screens)]>>
    [] OTHER -> NoCall

\* C22: a step makes at most one call, the call is the one the loop task is
\* executing at its position, and the step moves the loop task on; a step of
\* a spawned task or of the reader (a send or a read that is not part of a
\* call) makes no call and leaves the loop task where it is.
C22_OneCallbackAtATime ==
  [][ /\ calls' # calls =>
           /\ Executing # NoCall
           /\ calls' = Append(calls, Executing)
           /\ pc' # pc
      /\ (calls' = calls /\ (nSent' # nSent \/ reads' # reads)) =>
           /\ pc' = pc
           /\ Executing' = Executing
    ]_vars

\* C22 witness: on_exit is executing for an Exit on a stack that still holds
\* an instance, and the newest action in the channel was sent by a task.
C22_Witness ==
  /\ pc = "exit_exit"
  /\ screens # <<>>
  /\ actions # <<>>
  /\ sent[Len(sent)].ev = 0
  /\ sent[Len(sent)].act = actions[Len(actions)]

\* ---- C23 --------------------------------------------------------------
\* C23: run returns an error only from the loop top with the draw flag set;
\* in that step the terminal is restored, the flag stays set, the stack is
\* left as it is and at most the failing draw is called; from then on no
\* call is made on any screen, so the screens get no on_exit.
C23_DrawError ==
  [][ /\ (result' = "err" /\ result # "err") =>
           /\ pc = "loop"
           /\ draw
           /\ draw'
           /\ restored'
           /\ pc' = "done"
           /\ screens' = screens
           /\ \/ calls' = calls
              \/ calls' = Append(calls, <<"draw", screens[Len(screens)]>>)
      /\ result = "err" =>
           /\ result' = "err"
           /\ restored'
           /\ draw'
           /\ calls' = calls
           /\ screens' = screens
           /\ pc' = "done"
    ]_vars

\* C23 witness: run has returned an error with two screens on the stack,
\* neither of which has got an on_exit, and a task has sent since.
C23_Witness ==
  /\ result = "err"
  /\ Len(screens) = 2
  /\ \A k \in 1..Len(screens) : "exit" \notin Range(NamesOn(screens[k]))
  /\ taskPanic

\* ---- C24 --------------------------------------------------------------
\* C24: whenever run has been left, by returning Ok, by returning an error
\* or by a panic of the draw, the terminal has been restored.
C24_RestoredOnExit ==
  /\ pc \in {"done", "panicked"} => restored
  /\ result # "none" => restored
  /\ restored => pc \in {"done", "panicked"}

\* C24 witness: run was left by a panic of the draw call of a pushed screen.
C24_Witness ==
  /\ pc = "panicked"
  /\ Len(screens) = 2
  /\ calls[Len(calls)] = <<"draw", screens[2]>>

\* ---- C25 --------------------------------------------------------------
\* The tag each Navigator method is to send.
MethodTag(m) ==
  CASE m = "push" -> "Push"
    [] m = "replace" -> "Replace"
    [] m = "back" -> "Back"
    [] m = "clear" -> "Clear"
    [] m = "restart" -> "Restart"
    [] m = "exit" -> "Exit"
    [] m = "rerender" -> "Rerender"

\* C25: a step in which the channel accepts a send accepts exactly one; the
\* action accepted has the tag of the method called and the id it was given,
\* and it is the new tail of the one channel, whoever holds the handle; a
\* send by a spawned task leaves the stack, the screens and the loop's
\* position and flag as they were.
C25_NavigatorSends ==
  [][ sent' # sent =>
        /\ Len(sent') = Len(sent) + 1
        /\ SubSeq(sent', 1, Len(sent)) = sent
        /\ LET x == sent'[Len(sent')] IN
             /\ x.act.tag = MethodTag(x.m)
             /\ x.act.id = (IF x.m \in {"push", "replace"} THEN x.id ELSE NoID)
             /\ actions' = Append(actions, x.act)
        /\ nSent' = nSent + 1
        /\ calls' = calls =>
             /\ screens' = screens
             /\ st' = st
             /\ kind' = kind
             /\ pc' = pc
             /\ draw' = draw
    ]_vars

\* C25 witness: the channel holds a back() sent by on_event of the top
\* screen and, behind it, a push sent by a task.
C25_Witness ==
  /\ Len(sent) >= 2
  /\ Len(actions) >= 2
  /\ sent[Len(sent) - 1].m = "back"
  /\ sent[Len(sent) - 1].ev > 0
  /\ sent[Len(sent)].m = "push"
  /\ sent[Len(sent)].ev = 0
  /\ actions[Len(actions) - 1] = Back
  /\ actions[Len(actions)].tag = "Push"

\* ---- C26 --------------------------------------------------------------
\* C26: a Navigator call made once run has been left is not accepted by the
\* channel and panics in the caller; no call panics while run is running.
C26_SendAfterStop ==
  [][ /\ (nSent' # nSent /\ pc \in {"done", "panicked"}) =>
           /\ taskPanic'
           /\ actions' = actions
           /\ sent' = sent
      /\ (taskPanic' /\ ~taskPanic) =>
           /\ pc \in {"done", "panicked"}
           /\ nSent' = nSent + 1
    ]_vars

\* C26 witness: a task's call panicked after run had returned Ok by an Exit
\* that left an action in the channel.
C26_Witness ==
  /\ taskPanic
  /\ result = "ok"
  /\ actions # <<>>

\* ---- C27 --------------------------------------------------------------
\* C27: whenever the loop awaits, the completion of the top screen's
\* background operation is one of the sources select! races, next to the
\* event and the action.
C27_ThreeSources ==
  pc = "select" => SelectArms = {"event", "action", "background"}

C29_DefaultNeverCompletes ==
  \A x \in 1..Len(calls) :
    calls[x][1] = "background" => kind[calls[x][2]] \in OverridesRerender

\* C29 witness: the operation of a pushed screen that overrides it has
\* completed and the screen was drawn again; that screen is gone, and the
\* loop awaits on a top that keeps the default.
C29_Witness ==
  /\ pc = "select"
  /\ kind[screen] \notin OverridesRerender
  /\ \E x \in 1..(Len(calls) - 1) :
       /\ calls[x][1] = "background"
       /\ calls[x + 1] = <<"draw", calls[x][2]>>
       /\ calls[x][2] # screen

\* ---- C31 --------------------------------------------------------------
\* C31: once the receiver of the terminal event channel has been dropped,
\* the reader worker eventually stops.
C31_ReaderTerminates == (~rxAlive) ~> (readerPc = "stopped")

\* ---- C32 --------------------------------------------------------------
\* A step in which a callback calls the Navigator.
CallbackSends == calls' # calls /\ Len(sent') > Len(sent)
\* The actions sent from on_event so far have all been dispatched.
OnEventSendsApplied == \A k \in 1..Len(sent) : sent[k].ev > 0 => k <= Len(hist)

\* What every step keeps: a callback that calls the Navigator only puts the
\* action at the tail of the channel, and no action is dispatched by that
\* step; an action is dispatched only where the loop awaits in select!, when
\* no callback is running and the action applied before is complete, and it
\* was in the channel before the step; and the loop comes to await in
\* select! only from its top.
C32_Step ==
  /\ CallbackSends =>
       /\ pc # "select"
       /\ Len(hist') = Len(hist)
       /\ actions' = Append(actions, sent'[Len(sent')].act)
       /\ Len(hist') < Len(sent')
  /\ Len(hist') > Len(hist) =>
       /\ pc = "select"
       /\ calls' = calls
       /\ Len(hist') = Len(hist) + 1
       /\ hist # <<>> => hist[Len(hist)].done
       /\ Len(hist') <= Len(sent)
       /\ sent' = sent
       /\ hist'[Len(hist')].act = sent[Len(hist')].act
  /\ (pc' = "select" /\ pc # "select") => pc = "loop"

\* C32 as stated: an action sent from inside a callback is not applied during
\* that callback or the action being applied, and it is applied in a later
\* iteration: when run has returned with success, every action sent from
\* on_event has been dispatched.
C32_AppliedInLaterIteration ==
  [][ C32_Step /\ (result' = "ok" => OnEventSendsApplied') ]_vars

\* C32 (amended): an action sent from inside a callback is not applied
\* during that callback or the action being applied; it is applied, if at
\* all, in a later iteration of the loop.
C32_NotReentrant == [][C32_Step]_vars

\* C32 witness: on_event sent an action, the action was dispatched later and
\* its application is complete; so was an action sent from another callback.
C32_Witness ==
  /\ \E k \in 1..Len(hist) : sent[k].ev > 0 /\ hist[k].done
  /\ \E k \in 1..Len(hist) : sent[k].ev = 0 /\ hist[k].done /\ nSent = Len(sent)

\* ---- C33 --------------------------------------------------------------
\* The tasks whose StateHandle is live.
Handles == {t \in Tasks : tpc[t] \in HoldingPcs \cup {"stuck"}}

\* C33: at most one StateHandle is live at any time; a get() returns a
\* handle only when no handle is live, and until then the caller stays
\* inside get(); and the value is the number of updates written through
\* handles: no update is lost.
C33_Exclusive ==
  [][ /\ Cardinality(Handles') <= 1
      /\ \A t \in Tasks :
           /\ (tpc[t] = "locking" /\ tpc'[t] = "holding") => Handles = {}
           /\ (tpc[t] = "locking" /\ Handles # {}) => tpc'[t] = "locking"
      /\ cell' = updates'
    ]_vars

\* C33 witness: two tasks have each written an update, and a get() is
\* waiting while the handle of the other task is live.
C33_Witness ==
  /\ updates = 2
  /\ \E t, u \in Tasks :
       /\ t # u
       /\ tpc[t] = "locking"
       /\ tpc[u] = "written"
       /\ reg[t] = 0
       /\ reg[u] = 1

\* ---- C34 --------------------------------------------------------------
\* C34: the stack is not empty where the loop takes its top (line 123),
\* where Replace and Clear pop it (the action arm is entered from select!)
\* and where Back takes the new top after its pop (line 172); and the loop
\* task panics nowhere but inside a draw, on a stack that is not empty.
C34_NeverEmptyAtTop ==
  [][ /\ pc' \in {"loop", "select", "back_exit", "back_resume"} => screens' # <<>>
      /\ (pc' = "panicked" /\ pc # "panicked") =>
           pc = "loop" /\ draw /\ screens # <<>>
    ]_vars

\* C34 witness: Replace, Back and Clear have all been applied, Back and
\* Clear on a stack of one screen, and the loop is back at its top.
C34_Witness ==
  /\ pc = "loop"
  /\ Len(hist) = 3
  /\ {hist[k].act.tag : k \in 1..3} = {"Replace", "Back", "Clear"}
  /\ \A k \in 1..3 : hist[k].done /\ Len(hist[k].pre.screens) = 1
  /\ Len(screens) = 1

\* ---- C35 --------------------------------------------------------------
\* q is an initial part of r.
IsPrefix(q, r) == Len(q) <= Len(r) /\ SubSeq(r, 1, Len(q)) = q

\* C35: the step that leaves select! takes exactly one item, the head of
\* the event channel or the head of the action channel, and leaves the other
\* channel as it is; no other step takes anything out of either channel; and
\* every event forwarded and every action sent is in its channel, in the
\* loop's hands or counted among those consumed, once.
C35_OneItemPerIteration ==
  [][ /\ (pc = "select" /\ pc' # "select") =>
           \/ /\ events # <<>>
              /\ events' = Tail(events)
              /\ actions' = actions
              /\ pc' = "on_event"
              /\ cur' = EventMsg(Head(events))
              /\ hist' = hist
           \/ /\ actions # <<>>
              /\ actions' = Tail(actions)
              /\ events' = events
              /\ pc' # "on_event"
              /\ Len(hist') = Len(hist) + 1
              /\ hist'[Len(hist')].act = Head(actions)
      /\ (pc # "select" \/ pc' = "select") =>
           /\ IsPrefix(events, events')
           /\ IsPrefix(actions, actions')
           /\ Len(hist') = Len(hist)
           /\ Len(delivered') + Len(InHand') = Len(delivered) + Len(InHand)
      /\ Len(hist') + Len(actions') = Len(sent')
      /\ rxAlive' => Len(delivered') + Len(InHand') + Len(events') = nReads'
    ]_vars

\* C35 witness: the event arm has won with the first event while an action
\* was pending; the action is still in its channel, and so is the next event.
C35_Witness ==
  /\ pc = "on_event"
  /\ Len(actions) = 1
  /\ Len(events) = 1
  /\ Len(delivered) = 0

\* ---- C36 --------------------------------------------------------------
\* The loop has received an Exit.
ExitStarted == hist # <<>> /\ hist[Len(hist)].act.tag = "Exit"

\* C36: from the step that receives Exit on, no further action is received
\* and no event is handed to a screen; nothing is taken out of either
\* channel, so what is queued behind Exit, and what on_exit callbacks or
\* tasks send now, stays there unapplied; every callback invoked is on_exit
\* on an instance that was on the stack when Exit was received; and the
\* loop task does nothing but pop, call on_exit and return.
C36_NothingAfterExit ==
  [][ ExitStarted =>
        /\ Len(hist') = Len(hist)
        /\ hist'[Len(hist')].act = hist[Len(hist)].act
        /\ delivered' = delivered
        /\ IsPrefix(actions, actions')
        /\ IsPrefix(events, events')
        /\ calls' # calls =>
             \E i \in Range(hist[Len(hist)].pre.screens) :
               calls' = Append(calls, <<"exit", i>>)
        /\ pc \in {"exit_loop", "exit_exit", "done"}
        /\ pc' \in {"exit_loop", "exit_exit", "done"}
    ]_vars

\* C36 witness: run has returned after an Exit, the first action it
\* received; an action queued behind the Exit and an action sent by the
\* on_exit the Exit ran are left in the channel.
C36_Witness ==
  /\ result = "ok"
  /\ ExitStarted
  /\ Len(hist) = 1
  /\ Len(hist[1].pre.screens) = 1
  /\ Len(actions) = 2
  /\ ~sent[2].exiting
  /\ sent[3].exiting

\* ---- C37 --------------------------------------------------------------
\* C37: the step that takes an event out of the channel leaves the stack and
\* the action channel alone, and the instance on_event is then called on is
\* the top of the stack as it was at that step, whatever the action channel
\* holds; and while the loop awaits in select! with an event and an action
\* both pending, each of the two arms can be the one that is taken.
C37_RecipientIsTopAtDequeue ==
  [][ /\ (pc = "select" /\ pc' = "on_event") =>
           /\ screens # <<>>
           /\ screens' = screens
           /\ actions' = actions
           /\ screen' = screens[Len(screens)]
      /\ (pc = "on_event" /\ calls' # calls) =>
           /\ screen = screens[Len(screens)]
           /\ calls' = Append(calls, <<"event", screen>>)
      /\ (pc = "select" /\ events # <<>> /\ actions # <<>>) =>
           /\ ENABLED RecvEvent
           /\ ENABLED RecvAction
    ]_vars

\* C37 witness: the on_event of the first event sent a Push, Replace or Back,
\* and the second event has been handed to the same instance, still the top
\* of the stack, while that action waits in the channel.
C37_Witness ==
  /\ Len(delivered) = 2
  /\ delivered[1].inst = delivered[2].inst
  /\ hist = <<>>
  /\ Len(sent) = 1
  /\ sent[1].ev = 1
  /\ sent[1].act.tag \in {"Push", "Replace", "Back"}
  /\ actions = <<sent[1].act>>
  /\ screens[Len(screens)] = delivered[2].inst

\* ---- C38 --------------------------------------------------------------
\* A draw has failed or panicked: run has ended without an Exit.
DrawBroke == result = "err" \/ pc = "panicked"

\* C38: unless a draw breaks, the k-th action the channel accepted is
\* eventually applied to its end, or an Exit before it is; and once the
\* channel has accepted an Exit, run eventually returns Ok.
C38_EventuallyApplied ==
  /\ \A k \in 1..MaxInputs :
       (Len(sent) >= k) ~>
          \/ Len(hist) >= k /\ hist[k].done
          \/ ExitStarted
          \/ DrawBroke
  /\ (\E k \in 1..Len(sent) : sent[k].act = Exit) ~> (result = "ok" \/ DrawBroke)

\* C38 witness: run has returned Ok after an Exit that was sent behind a Push
\* and applied after it.
C38_Witness ==
  /\ result = "ok"
  /\ Len(hist) = 2
  /\ hist[1].act.tag = "Push"
  /\ hist[2].act = Exit
  /\ hist[2].done

\* ---- C39 --------------------------------------------------------------
\* C39: for a Replace received on a stack of more than one screen, the
\* instances below the top are, from then until the Replace is complete, the
\* same instances in the same order at the bottom of the stack, each in the
\* state it was in, and none of the calls made since was on one of them.
C39_ReplaceLeavesLower ==
  \A k \in 1..Len(hist) :
    (hist[k].act.tag = "Replace" /\ Len(hist[k].pre.screens) > 1) =>
      LET h == hist[k]
          below == ButLast(h.pre.screens)
          now == IF h.done THEN h.post ELSE Snap
      IN /\ Len(now.screens) >= Len(below)
         /\ SubSeq(now.screens, 1, Len(below)) = below
         /\ Len(now.screens) <= Len(below) + 1
         /\ \A i \in Range(below) : now.st[i] = h.pre.st[i]
         /\ \A x \in (h.pre.ncalls + 1)..now.ncalls : calls[x][2] \notin Range(below)

\* C39 witness: a Replace has been applied on a stack of three screens.
C39_Witness ==
  \E k \in 1..Len(hist) : Applied(k, "Replace") /\ Len(hist[k].pre.screens) = 3

\* ---- C40 --------------------------------------------------------------
\* C40: a step in which a callback calls the Navigator puts the action at
\* the tail of the channel and panics nobody; and run is left, so that the
\* receiver is dropped, only with no callback in progress, after an Exit
\* only once the stack is empty.
C40_CallbackSendSucceeds ==
  [][ /\ (calls' # calls /\ nSent' # nSent) =>
           /\ pc \notin {"done", "panicked"}
           /\ Len(sent') = Len(sent) + 1
           /\ actions' = Append(actions, sent'[Len(sent')].act)
           /\ taskPanic' = taskPanic
      /\ pc \in {"done", "panicked"} => calls' = calls
      /\ result' = "ok" => (screens' = <<>> /\ old' = NoInst)
    ]_vars

\* C40 witness: the on_exit that Exit ran on the last screen called the
\* Navigator, the action is in the channel and run has returned Ok.
C40_Witness ==
  /\ result = "ok"
  /\ ~taskPanic
  /\ sent # <<>>
  /\ sent[Len(sent)].exiting
  /\ actions # <<>>
  /\ actions[Len(actions)] = sent[Len(sent)].act
  /\ calls[Len(calls)][1] = "exit"

====
